---- MODULE Spec2Model ----
(***************************************************************************)
(* Model of pattern_search/postprocess_pattern_catalog.py: a batch         *)
(* pipeline that parses a " | "-separated log of rewrite notifications,    *)
(* groups the records by pattern, writes an index operation -> patterns    *)
(* and one report page per pattern.                                        *)
(*                                                                         *)
(* Python strings are modelled as sequences of one-character strings, so   *)
(* that strip, split, re.sub and lower are computed as Python computes     *)
(* them.                                                                   *)
(***************************************************************************)
EXTENDS Integers, Sequences, FiniteSets, TLC

\* Number of lines of the input file (bound of the model).
MaxLines == 2

(***************************************************************************)
(* Characters and string primitives                                        *)
(***************************************************************************)

\* str.strip() with no argument removes leading and trailing whitespace.
Whitespace == {" ", "\t", "\n"}

LowerLetters ==
    {"a", "b", "c", "d", "e", "f", "g", "h", "i", "j", "k", "l", "m",
     "n", "o", "p", "q", "r", "s", "t", "u", "v", "w", "x", "y", "z"}

UpperToLower ==
    ("A" :> "a") @@ ("B" :> "b") @@ ("C" :> "c") @@ ("D" :> "d") @@
    ("E" :> "e") @@ ("F" :> "f") @@ ("G" :> "g") @@ ("H" :> "h") @@
    ("I" :> "i") @@ ("J" :> "j") @@ ("K" :> "k") @@ ("L" :> "l") @@
    ("M" :> "m") @@ ("N" :> "n") @@ ("O" :> "o") @@ ("P" :> "p") @@
    ("Q" :> "q") @@ ("R" :> "r") @@ ("S" :> "s") @@ ("T" :> "t") @@
    ("U" :> "u") @@ ("V" :> "v") @@ ("W" :> "w") @@ ("X" :> "x") @@
    ("Y" :> "y") @@ ("Z" :> "z")

DigitChars == <<"0", "1", "2", "3", "4", "5", "6", "7", "8", "9">>

\* The character class [a-zA-Z0-9_-] of the regular expression.
FilenameChars ==
    LowerLetters \cup DOMAIN UpperToLower
        \cup {DigitChars[i] : i \in DOMAIN DigitChars} \cup {"_", "-"}

RECURSIVE LStrip(_)
LStrip(s) ==
    IF s # <<>> /\ Head(s) \in Whitespace THEN LStrip(Tail(s)) ELSE s

RECURSIVE RStrip(_)
RStrip(s) ==
    IF s # <<>> /\ s[Len(s)] \in Whitespace
    THEN RStrip(SubSeq(s, 1, Len(s) - 1))
    ELSE s

\* str.strip()
Strip(s) == RStrip(LStrip(s))

\* str.split(sep): scans left to right, separators do not overlap.
RECURSIVE SplitRec(_, _, _)
SplitRec(rest, sep, cur) ==
    IF rest = <<>> THEN <<cur>>
    ELSE IF Len(rest) >= Len(sep) /\ SubSeq(rest, 1, Len(sep)) = sep
         THEN <<cur>> \o SplitRec(SubSeq(rest, Len(sep) + 1, Len(rest)), sep, <<>>)
         ELSE SplitRec(Tail(rest), sep, Append(cur, Head(rest)))

Split(s, sep) == SplitRec(s, sep, <<>>)

\* str.lower()
Lower(s) ==
    [i \in 1..Len(s) |->
        IF s[i] \in DOMAIN UpperToLower THEN UpperToLower[s[i]] ELSE s[i]]

\* re.sub(r"[^a-zA-Z0-9_-]", "_", name)
ReSub(s) == [i \in 1..Len(s) |-> IF s[i] \in FilenameChars THEN s[i] ELSE "_"]

\* f"{n}" for a non-negative integer: its decimal digits.
RECURSIVE IntToStr(_)
IntToStr(n) ==
    IF n < 10 THEN <<DigitChars[n + 1]>>
    ELSE Append(IntToStr(n \div 10), DigitChars[(n % 10) + 1])

(***************************************************************************)
(* String literals of the program                                          *)
(***************************************************************************)

\* " | "
FieldSep == <<" ", "|", " ">>

\* "notifyOperationReplaced (with op)"
REPLACED_WITH_OP ==
    <<"n", "o", "t", "i", "f", "y", "O", "p", "e", "r", "a", "t", "i", "o",
      "n", "R", "e", "p", "l", "a", "c", "e", "d", " ", "(", "w", "i", "t",
      "h", " ", "o", "p", ")">>

\* "notifyOperationInserted"
INSERTED ==
    <<"n", "o", "t", "i", "f", "y", "O", "p", "e", "r", "a", "t", "i", "o",
      "n", "I", "n", "s", "e", "r", "t", "e", "d">>

\* "notifyOperationErased"
ERASED ==
    <<"n", "o", "t", "i", "f", "y", "O", "p", "e", "r", "a", "t", "i", "o",
      "n", "E", "r", "a", "s", "e", "d">>

\* "notifyOperationModified"
MODIFIED ==
    <<"n", "o", "t", "i", "f", "y", "O", "p", "e", "r", "a", "t", "i", "o",
      "n", "M", "o", "d", "i", "f", "i", "e", "d">>

\* "notifyOperationReplaced (with values)"
REPLACED_WITH_VALUES ==
    <<"n", "o", "t", "i", "f", "y", "O", "p", "e", "r", "a", "t", "i", "o",
      "n", "R", "e", "p", "l", "a", "c", "e", "d", " ", "(", "w", "i", "t",
      "h", " ", "v", "a", "l", "u", "e", "s", ")">>

\* "unknown"
UNKNOWN == <<"u", "n", "k", "n", "o", "w", "n">>

\* ".md"
MdSuffix == <<".", "m", "d">>

\* The five labels create_hugo_post recognizes, in the order of its elif chain.
RecognizedTypes ==
    <<REPLACED_WITH_OP, INSERTED, ERASED, MODIFIED, REPLACED_WITH_VALUES>>

RecognizedSet == {RecognizedTypes[i] : i \in DOMAIN RecognizedTypes}

(***************************************************************************)
(* Input files of the model                                                *)
(***************************************************************************)

\* A label the report stage does not know.
BogusType ==
    <<"n", "o", "t", "i", "f", "y", "B", "l", "o", "c", "k", "I", "n", "s",
      "e", "r", "t", "e", "d">>

NameNs  == <<"n", "s", ":", ":", "O", "p", "<", "T", ">">>
NameOp  == <<"O", "p">>
NameLow == <<"o", "p">>
NameDot == <<"o", ".", "p">>
OpX     == <<"x">>
OpY     == <<"y">>

RECURSIVE Join(_)
Join(fields) ==
    IF Len(fields) = 1 THEN fields[1]
    ELSE fields[1] \o FieldSep \o Join(Tail(fields))

WellFormedLines ==
    {Join(<<NameOp, t, OpX>>) : t \in RecognizedSet \cup {BogusType}}
    \cup {Join(<<NameOp, REPLACED_WITH_OP, OpX, OpY>>),
          Join(<<NameOp, REPLACED_WITH_OP, OpY, OpX>>),
          Join(<<NameOp, REPLACED_WITH_OP, OpX, OpY, OpX>>),
          Join(<<NameOp, INSERTED, OpY>>),
          Join(<<NameOp, INSERTED, OpX, OpY>>),
          Join(<<NameNs, INSERTED, OpX>>),
          Join(<<NameNs, REPLACED_WITH_OP, OpX, OpY>>),
          Join(<<NameLow, INSERTED, OpX>>),
          Join(<<NameLow, ERASED, OpY>>),
          Join(<<NameDot, MODIFIED, OpX>>)}

OddLines ==
    {<<>>,
     <<" ", "\t", "\n">>,
     NameOp,
     Join(<<NameOp, INSERTED>>),
     Join(<<<<>>, INSERTED, OpX>>),
     Join(<<<<>>, INSERTED, OpX, OpY>>),
     Join(<<<<"\t">>, ERASED, OpY>>),
     <<" ">> \o Join(<<NameOp, MODIFIED, OpY>>) \o <<" ", "\n">>,
     NameOp \o <<" ", "|">> \o INSERTED \o FieldSep \o OpX}

InputLines == WellFormedLines \cup OddLines

InputFiles == UNION {[1..n -> InputLines] : n \in 0..MaxLines}

(***************************************************************************)
(* State                                                                   *)
(***************************************************************************)

VARIABLES
    input,          \* the lines of the input file, as `for line in f` yields them
    pc,             \* position of the run in preprocess_data
    lineNo,         \* parse_file: index of the next line
    patterns,       \* parse_file: the defaultdict(list), in insertion order
    search_index,   \* preprocess_data: operation -> set of pattern names
    index_file,     \* <<>> until the index is written, then <<op -> list>>
    postNo,         \* generate_posts: index of the next pattern
    unique_id,      \* the module-level counter
    files,          \* report files on disk: path -> content
    events,         \* observable events of the run, in order
    error           \* the exception that ended the run, or "none"

vars ==
    <<input, pc, lineNo, patterns, search_index, index_file, postNo,
      unique_id, files, events, error>>

Event(kind, arg) == [kind |-> kind, arg |-> arg]

(***************************************************************************)
(* parse_file                                                              *)
(***************************************************************************)

\* Index of pattern `name` in the ordered dict `pats`, 0 when it is no key.
KeyIndex(pats, name) ==
    IF \E i \in DOMAIN pats : pats[i].name = name
    THEN CHOOSE i \in DOMAIN pats : pats[i].name = name
    ELSE 0

\* patterns[pattern_name].append(rec) on a defaultdict(list)
AppendRecord(pats, name, rec) ==
    LET i == KeyIndex(pats, name) IN
    IF i = 0 THEN Append(pats, [name |-> name, mods |-> <<rec>>])
    ELSE [pats EXCEPT ![i].mods = Append(@, rec)]

\* Variant of ParseOne: the defaultdict is read under the name of a short
\* line before the field count is tested, which creates the key.
ParseOneTouchingKey(pats, raw) ==
    LET line  == Strip(raw)
        parts == Split(line, FieldSep)
    IN  IF line = <<>> THEN pats
        ELSE IF Len(parts) < 3
        THEN IF KeyIndex(pats, parts[1]) = 0
             THEN Append(pats, [name |-> parts[1], mods |-> <<>>])
             ELSE pats
        ELSE LET pattern_name == IF Strip(parts[1]) # <<>> THEN parts[1] ELSE UNKNOWN
                 modification_type == parts[2]
             IN  IF modification_type = REPLACED_WITH_OP /\ Len(parts) = 4
                 THEN AppendRecord(pats, pattern_name,
                          [type |-> modification_type,
                           old_op |-> parts[3], new_op |-> parts[4]])
                 ELSE AppendRecord(pats, pattern_name,
                          [type |-> modification_type, op |-> parts[3]])

\* Variant of ParseOne: the Replaced form is taken for 4 fields or more.
ParseOneAtLeastFour(pats, raw) ==
    LET line  == Strip(raw)
        parts == Split(line, FieldSep)
    IN  IF line = <<>> THEN pats
        ELSE IF Len(parts) < 3 THEN pats
        ELSE LET pattern_name == IF Strip(parts[1]) # <<>> THEN parts[1] ELSE UNKNOWN
                 modification_type == parts[2]
             IN  IF modification_type = REPLACED_WITH_OP /\ Len(parts) >= 4
                 THEN AppendRecord(pats, pattern_name,
                          [type |-> modification_type,
                           old_op |-> parts[3], new_op |-> parts[4]])
                 ELSE AppendRecord(pats, pattern_name,
                          [type |-> modification_type, op |-> parts[3]])

\* Variant of ParseOne: lines with an unrecognized label are skipped.
ParseOneValidating(pats, raw) ==
    LET line  == Strip(raw)
        parts == Split(line, FieldSep)
    IN  IF line = <<>> THEN pats
        ELSE IF Len(parts) < 3 THEN pats
        ELSE IF parts[2] \notin RecognizedSet THEN pats
        ELSE LET pattern_name == IF Strip(parts[1]) # <<>> THEN parts[1] ELSE UNKNOWN
                 modification_type == parts[2]
             IN  IF modification_type = REPLACED_WITH_OP /\ Len(parts) = 4
                 THEN AppendRecord(pats, pattern_name,
                          [type |-> modification_type,
                           old_op |-> parts[3], new_op |-> parts[4]])
                 ELSE AppendRecord(pats, pattern_name,
                          [type |-> modification_type, op |-> parts[3]])

\* The body of the loop over the lines, for one raw line.
ParseOne(pats, raw) ==
    LET line  == Strip(raw)
        parts == Split(line, FieldSep)
    IN  IF line = <<>> THEN pats
        ELSE IF Len(parts) < 3 THEN pats
        ELSE LET pattern_name == IF Strip(parts[1]) # <<>> THEN parts[1] ELSE UNKNOWN
                 modification_type == parts[2]
             IN  IF modification_type = REPLACED_WITH_OP /\ Len(parts) = 4
                 THEN AppendRecord(pats, pattern_name,
                          [type |-> modification_type,
                           old_op |-> parts[3], new_op |-> parts[4]])
                 ELSE AppendRecord(pats, pattern_name,
                          [type |-> modification_type, op |-> parts[3]])

Init ==
    /\ input \in InputFiles
    /\ pc = "parse"
    /\ lineNo = 1
    /\ patterns = <<>>
    /\ search_index = <<>>
    /\ index_file = <<>>
    /\ postNo = 1
    /\ unique_id = 0
    /\ files = <<>>
    /\ events = <<>>
    /\ error = "none"

\* One iteration of `for line in f`.
ParseLine ==
    /\ pc = "parse"
    /\ lineNo <= Len(input)
    /\ patterns' = ParseOne(patterns, input[lineNo])
    /\ lineNo' = lineNo + 1
    /\ UNCHANGED <<input, pc, search_index, index_file, postNo, unique_id,
                   files, events, error>>

\* `return patterns`
ParseReturn ==
    /\ pc = "parse"
    /\ lineNo > Len(input)
    /\ pc' = "index"
    /\ events' = Append(events, Event("parsed", <<>>))
    /\ UNCHANGED <<input, lineNo, patterns, search_index, index_file, postNo,
                   unique_id, files, error>>

(***************************************************************************)
(* preprocess_data: the search index                                       *)
(***************************************************************************)

\* The (pattern_name, mod) pairs in the order of the two nested loops.
RECURSIVE Flatten(_)
Flatten(pats) ==
    IF pats = <<>> THEN <<>>
    ELSE [j \in 1..Len(pats[1].mods) |->
              [name |-> pats[1].name, mod |-> pats[1].mods[j]]]
         \o Flatten(Tail(pats))

\* Variant of AddToIndex: the set under the key is replaced, not extended.
AddToIndexOverwrite(idx, key, name) ==
    [k \in DOMAIN idx \cup {key} |-> IF k = key THEN {name} ELSE idx[k]]

\* search_index[key].add(name) on a defaultdict(set)
AddToIndex(idx, key, name) ==
    IF key \in DOMAIN idx
    THEN [idx EXCEPT ![key] = @ \cup {name}]
    ELSE idx @@ (key :> {name})

\* The body of the inner loop; mod["k"] raises KeyError when k is no key.
IndexOne(idx, name, mod) ==
    IF mod.type = REPLACED_WITH_OP
    THEN IF "old_op" \notin DOMAIN mod
         THEN [ok |-> FALSE, idx |-> idx]
         ELSE IF "new_op" \notin DOMAIN mod
         THEN [ok |-> FALSE, idx |-> AddToIndex(idx, mod.old_op, name)]
         ELSE [ok |-> TRUE,
               idx |-> AddToIndex(AddToIndex(idx, mod.old_op, name),
                                  mod.new_op, name)]
    ELSE IF "op" \notin DOMAIN mod
         THEN [ok |-> FALSE, idx |-> idx]
         ELSE [ok |-> TRUE, idx |-> AddToIndex(idx, mod.op, name)]

\* The two nested loops, stopping at the first KeyError.
RECURSIVE IndexAll(_, _)
IndexAll(idx, pairs) ==
    IF pairs = <<>> THEN [ok |-> TRUE, idx |-> idx]
    ELSE LET r == IndexOne(idx, pairs[1].name, pairs[1].mod)
         IN  IF r.ok THEN IndexAll(r.idx, Tail(pairs)) ELSE r

\* list(a_set): every element once, in an order the language does not fix.
Orderings(S) ==
    {s \in [1..Cardinality(S) -> S] : \A e \in S : \E i \in DOMAIN s : s[i] = e}

\* The index with each set converted to a list.
ListedIndexes(idx) ==
    {f \in [DOMAIN idx -> UNION {Orderings(idx[k]) : k \in DOMAIN idx}] :
        \A k \in DOMAIN idx : f[k] \in Orderings(idx[k])}

\* Variant of BuildIndex: the reports are generated next, the index is not saved.
BuildIndexNoSave ==
    /\ pc = "index"
    /\ LET r == IndexAll(<<>>, Flatten(patterns))
       IN  /\ search_index' = r.idx
           /\ IF r.ok
              THEN pc' = "posts_begin" /\ error' = error
              ELSE pc' = "failed" /\ error' = "KeyError"
    /\ UNCHANGED <<input, lineNo, patterns, index_file, postNo, unique_id,
                   files, events>>

\* The loops that fill search_index.
BuildIndex ==
    /\ pc = "index"
    /\ LET r == IndexAll(<<>>, Flatten(patterns))
       IN  /\ search_index' = r.idx
           /\ IF r.ok
              THEN pc' = "save" /\ error' = error
              ELSE pc' = "failed" /\ error' = "KeyError"
    /\ UNCHANGED <<input, lineNo, patterns, index_file, postNo, unique_id,
                   files, events>>

\* Sets to lists, then json.dump to the index file.
SaveIndex ==
    /\ pc = "save"
    /\ \E f \in ListedIndexes(search_index) :
           /\ search_index' = f
           /\ index_file' = <<f>>
    /\ events' = Append(events, Event("index", <<>>))
    /\ pc' = "posts_begin"
    /\ UNCHANGED <<input, lineNo, patterns, postNo, unique_id, files, error>>

(***************************************************************************)
(* Report generation                                                       *)
(***************************************************************************)

\* pattern_name.split("<")[0], then .split("::")[-1]
extract_class_name(pattern_name) ==
    LET name  == Split(pattern_name, <<"<">>)[1]
        parts == Split(name, <<":", ":">>)
    IN  parts[Len(parts)]

\* Variant of sanitize_filename: the counter is not appended.
SanitizeWithoutCounter(pattern_name, uid) ==
    LET name  == Split(pattern_name, <<"<">>)[1]
        parts == Split(name, <<":", ":">>)
        last  == parts[Len(parts)]
    IN  Lower(ReSub(last))

\* The identifier built from the pattern name and the current counter `uid`.
sanitize_filename(pattern_name, uid) ==
    LET name  == Split(pattern_name, <<"<">>)[1]
        parts == Split(name, <<":", ":">>)
        last  == parts[Len(parts)]
    IN  Lower(ReSub(last) \o <<"_">> \o IntToStr(uid))

\* The heading of the bucket of a modification type, "" for an unknown type.
BucketOf(type) ==
    IF type = REPLACED_WITH_OP THEN "Operations replaced"
    ELSE IF type = INSERTED THEN "Operations inserted"
    ELSE IF type = ERASED THEN "Operations erased"
    ELSE IF type = MODIFIED THEN "Operations modified"
    ELSE IF type = REPLACED_WITH_VALUES THEN "Operations replaced with values"
    ELSE ""

\* Variant of AppendToBucket: a new heading is put in front of the others.
AppendToBucketInFront(buckets, heading, op) ==
    IF \E i \in DOMAIN buckets : buckets[i].heading = heading
    THEN LET i == CHOOSE i \in DOMAIN buckets : buckets[i].heading = heading
         IN  [buckets EXCEPT ![i].ops = Append(@, op)]
    ELSE <<[heading |-> heading, ops |-> <<op>>]>> \o buckets

\* operations_by_type[heading].append(op) on a defaultdict(list), which keeps
\* its keys in the order of their first insertion.
AppendToBucket(buckets, heading, op) ==
    IF \E i \in DOMAIN buckets : buckets[i].heading = heading
    THEN LET i == CHOOSE i \in DOMAIN buckets : buckets[i].heading = heading
         IN  [buckets EXCEPT ![i].ops = Append(@, op)]
    ELSE Append(buckets, [heading |-> heading, ops |-> <<op>>])

\* Variant of GroupByType: a record of unknown type is skipped.
RECURSIVE GroupByTypeSkipping(_, _)
GroupByTypeSkipping(buckets, operations) ==
    IF operations = <<>> THEN [ok |-> TRUE, buckets |-> buckets]
    ELSE LET h == BucketOf(operations[1].type)
         IN  IF h = "" THEN GroupByTypeSkipping(buckets, Tail(operations))
             ELSE GroupByTypeSkipping(AppendToBucket(buckets, h, operations[1]),
                                      Tail(operations))

\* The loop that groups the operations by type; ok = FALSE is the ValueError.
RECURSIVE GroupByType(_, _)
GroupByType(buckets, operations) ==
    IF operations = <<>> THEN [ok |-> TRUE, buckets |-> buckets]
    ELSE LET h == BucketOf(operations[1].type)
         IN  IF h = "" THEN [ok |-> FALSE, buckets |-> buckets]
             ELSE GroupByType(AppendToBucket(buckets, h, operations[1]),
                              Tail(operations))

\* Whether rendering the line of `op` in the section `heading` finds its keys.
ItemKeysPresent(heading, op) ==
    IF heading = "Operations replaced"
    THEN {"old_op", "new_op"} \subseteq DOMAIN op
    ELSE "op" \in DOMAIN op

\* The line of `op` in the section `heading`.
RenderItem(heading, op) ==
    IF heading = "Operations replaced"
    THEN <<op.old_op, op.new_op>>
    ELSE <<op.op>>

\* The sections of the report, in the iteration order of operations_by_type.
RenderSections(buckets) ==
    [i \in 1..Len(buckets) |->
        [heading |-> buckets[i].heading,
         items   |-> [j \in 1..Len(buckets[i].ops) |->
                         RenderItem(buckets[i].heading, buckets[i].ops[j])]]]

\* One call of create_hugo_post, for the pattern at postNo.
CreateHugoPost ==
    /\ pc = "posts"
    /\ postNo <= Len(patterns)
    /\ LET pattern_name == patterns[postNo].name
           operations   == patterns[postNo].mods
           filename     == sanitize_filename(pattern_name, unique_id)
           filepath     == filename \o MdSuffix
           class_name   == extract_class_name(pattern_name)
           grouped      == GroupByType(<<>>, operations)
           renderable   == \A i \in DOMAIN grouped.buckets :
                               \A j \in DOMAIN grouped.buckets[i].ops :
                                   ItemKeysPresent(grouped.buckets[i].heading,
                                                   grouped.buckets[i].ops[j])
       IN  /\ unique_id' = unique_id + 1
           /\ IF ~grouped.ok
              THEN /\ pc' = "failed"
                   /\ error' = "ValueError"
                   /\ UNCHANGED <<files, events, postNo>>
              ELSE IF ~renderable
              THEN /\ pc' = "failed"
                   /\ error' = "KeyError"
                   /\ UNCHANGED <<files, events, postNo>>
              ELSE /\ files' = [p \in DOMAIN files \cup {filepath} |->
                                   IF p = filepath
                                   THEN [title    |-> pattern_name,
                                         query    |-> class_name,
                                         sections |-> RenderSections(grouped.buckets)]
                                   ELSE files[p]]
                   /\ events' = Append(events, Event("report", filepath))
                   /\ postNo' = postNo + 1
                   /\ UNCHANGED <<pc, error>>
    /\ UNCHANGED <<input, lineNo, patterns, search_index, index_file>>

\* generate_posts up to its loop: prints the number of patterns found.
GeneratePostsBegin ==
    /\ pc = "posts_begin"
    /\ pc' = "posts"
    /\ events' = Append(events, Event("found", IntToStr(Len(patterns))))
    /\ UNCHANGED <<input, lineNo, patterns, search_index, index_file, postNo,
                   unique_id, files, error>>

\* generate_posts after its loop: prints the number of posts generated.
GeneratePostsEnd ==
    /\ pc = "posts"
    /\ postNo > Len(patterns)
    /\ pc' = "summary"
    /\ events' = Append(events, Event("generated", IntToStr(Len(patterns))))
    /\ UNCHANGED <<input, lineNo, patterns, search_index, index_file, postNo,
                   unique_id, files, error>>

\* The two closing prints of preprocess_data.
PrintSummary ==
    /\ pc = "summary"
    /\ pc' = "done"
    /\ events' = Append(events, Event("summary", <<>>))
    /\ UNCHANGED <<input, lineNo, patterns, search_index, index_file, postNo,
                   unique_id, files, error>>

Next ==
    \/ ParseLine
    \/ ParseReturn
    \/ BuildIndex
    \/ SaveIndex
    \/ GeneratePostsBegin
    \/ CreateHugoPost
    \/ GeneratePostsEnd
    \/ PrintSummary

Spec == Init /\ [][Next]_vars

(***************************************************************************)
(* Vocabulary of the properties                                            *)
(***************************************************************************)

\* The fields of a line as parse_file sees them: split after the strip.
Fields(raw) == Split(Strip(raw), FieldSep)

\* The fields of the line as it stands in the file.
RawFields(raw) == Split(raw, FieldSep)

\* parse_file skips the line.
Skipped(raw) == Strip(raw) = <<>> \/ Len(Fields(raw)) < 3

\* The lines parse_file has consumed so far.
Consumed == SubSeq(input, 1, lineNo - 1)

\* The elements of a sequence.
Range(s) == {s[i] : i \in DOMAIN s}

\* The list stored under a pattern name, <<>> when the name is no key.
ModsOf(pats, name) ==
    IF KeyIndex(pats, name) = 0 THEN <<>> ELSE pats[KeyIndex(pats, name)].mods

\* The names of the operations a record references.
Refs(rec) == {rec[k] : k \in DOMAIN rec \ {"type"}}

\* All records of all patterns, as (pattern, record) pairs.
AllRecords ==
    UNION {{<<patterns[i].name, patterns[i].mods[j]>> :
               j \in DOMAIN patterns[i].mods} : i \in DOMAIN patterns}

\* The patterns with a record that references the operation.
PatternsReferencing(op) == {r[1] : r \in {q \in AllRecords : op \in Refs(q[2])}}

\* The number of records of all patterns.
RECURSIVE CountRecords(_)
CountRecords(pats) ==
    IF pats = <<>> THEN 0 ELSE Len(pats[1].mods) + CountRecords(Tail(pats))

\* Some record of the list has a label create_hugo_post does not recognize.
HasUnknownType(mods) == \E j \in DOMAIN mods : mods[j].type \notin RecognizedSet

\* The report files written so far, in the order of their writes.
ReportEvents == SelectSeq(events, LAMBDA e : e.kind = "report")

\* The file-order fold of the loop body over a sequence of lines.
RECURSIVE ParseAll(_, _)
ParseAll(pats, lines) ==
    IF lines = <<>> THEN pats
    ELSE ParseAll(ParseOne(pats, lines[1]), Tail(lines))

(***************************************************************************)
(* C1: whenever the index file is written, it is exactly the inverse of    *)
(* the parsed grouping: its keys are the operations some record            *)
(* references; the list under a key holds each pattern referencing that    *)
(* operation exactly once and nothing else; hence every listed pattern is  *)
(* a key of the grouping and every pattern with a record is listed.        *)
(***************************************************************************)
C1_IndexIsInverse ==
    index_file # <<>> =>
        LET idx == index_file[1] IN
        /\ DOMAIN idx = UNION {Refs(r[2]) : r \in AllRecords}
        /\ \A k \in DOMAIN idx :
              /\ Range(idx[k]) = PatternsReferencing(k)
              /\ Len(idx[k]) = Cardinality(PatternsReferencing(k))
        /\ \A k \in DOMAIN idx : \A n \in Range(idx[k]) :
              KeyIndex(patterns, n) # 0
        /\ \A i \in DOMAIN patterns :
              patterns[i].mods # <<>> =>
                  \E k \in DOMAIN idx : patterns[i].name \in Range(idx[k])

\* An index was written for a pattern with two records that reference the
\* same operation, and lists the pattern once under it.
C1_Witness ==
    /\ index_file # <<>>
    /\ \E i \in DOMAIN patterns : \E j1, j2 \in DOMAIN patterns[i].mods :
          /\ j1 # j2
          /\ \E k \in Refs(patterns[i].mods[j1]) \cap Refs(patterns[i].mods[j2]) :
                index_file[1][k] = <<patterns[i].name>>

(***************************************************************************)
(* C2: the identifiers of the report files written in a run are pairwise   *)
(* distinct, also for patterns with the same sanitized base name: no       *)
(* write replaces a file written earlier in the run, and the number of     *)
(* distinct report files equals the number of patterns processed.          *)
(***************************************************************************)
\* C2: report identifiers of a run are pairwise distinct, no report file is
\* overwritten, and there are as many files as patterns processed.
C2_DistinctIdentifiers ==
    /\ \A i, j \in DOMAIN ReportEvents :
          i # j => ReportEvents[i].arg # ReportEvents[j].arg
    /\ Cardinality(DOMAIN files) = Len(ReportEvents)
    /\ Len(ReportEvents) = postNo - 1
    /\ \A i \in DOMAIN ReportEvents :
          /\ ReportEvents[i].arg \in DOMAIN files
          /\ files[ReportEvents[i].arg].title = patterns[i].name

\* Two reports were written for patterns with the same sanitized base name.
C2_Witness ==
    /\ pc = "done"
    /\ Len(patterns) = 2
    /\ patterns[1].name # patterns[2].name
    /\ sanitize_filename(patterns[1].name, 0) = sanitize_filename(patterns[2].name, 0)
    /\ Cardinality(DOMAIN files) = 2

(***************************************************************************)
(* C3: parse_file raises no error, and lines that are blank after          *)
(* trimming or have fewer than 3 fields add no record and no pattern key:  *)
(* the grouping equals the grouping of the input without those lines.      *)
(***************************************************************************)
\* The line is blank after trimming, or has fewer than 3 fields (split as it
\* stands in the file, or split after trimming).
C3_Droppable(raw) ==
    Strip(raw) = <<>> \/ Len(RawFields(raw)) < 3 \/ Len(Fields(raw)) < 3

\* C3: parsing raises no error, and the grouping is that of the input without
\* its blank and short lines, with one record per remaining line.
C3_DroppedLinesLeaveNoTrace ==
    /\ pc \in {"parse", "index"} => error = "none"
    /\ \A i \in DOMAIN patterns : patterns[i].mods # <<>>
    /\ pc = "index" =>
          LET kept == SelectSeq(input, LAMBDA l : ~C3_Droppable(l))
          IN  /\ patterns = ParseAll(<<>>, kept)
              /\ CountRecords(patterns) = Len(kept)

\* Parsing finished on a file with a dropped line before a kept line.
C3_Witness ==
    /\ pc = "index"
    /\ Len(input) = 2
    /\ C3_Droppable(input[1])
    /\ Strip(input[1]) # <<>>
    /\ ~C3_Droppable(input[2])
    /\ Len(patterns) = 1

(***************************************************************************)
(* C4: every line that is not skipped appends exactly one record to the    *)
(* list of its pattern and changes no other list: a Replaced record with   *)
(* old_op = field 2 and new_op = field 3 when field 1 is                   *)
(* "notifyOperationReplaced (with op)" and the line has exactly 4 fields,  *)
(* otherwise a record with the label of field 1 and op = field 2 (further  *)
(* fields ignored); and a written index lists the pattern under both       *)
(* old_op and new_op of each Replaced record.                              *)
(***************************************************************************)
C4_RecordOf(parts) ==
    IF parts[2] = REPLACED_WITH_OP /\ Len(parts) = 4
    THEN [type |-> parts[2], old_op |-> parts[3], new_op |-> parts[4]]
    ELSE [type |-> parts[2], op |-> parts[3]]

C4_PatternOf(parts) == IF Strip(parts[1]) = <<>> THEN UNKNOWN ELSE parts[1]

C4_LineStep ==
    (pc = "parse" /\ lineNo <= Len(input) /\ ~Skipped(input[lineNo])) =>
        LET parts == Fields(input[lineNo])
            name  == C4_PatternOf(parts)
        IN  /\ ModsOf(patterns', name) =
                   Append(ModsOf(patterns, name), C4_RecordOf(parts))
            /\ \A i \in DOMAIN patterns :
                   /\ patterns'[i].name = patterns[i].name
                   /\ patterns[i].name # name => patterns'[i].mods = patterns[i].mods
            /\ Len(patterns') =
                   IF KeyIndex(patterns, name) = 0
                   THEN Len(patterns) + 1 ELSE Len(patterns)

C4_IndexMapsBoth ==
    index_file # <<>> =>
        \A r \in AllRecords :
            "old_op" \in DOMAIN r[2] =>
                /\ r[2].old_op \in DOMAIN index_file[1]
                /\ r[1] \in Range(index_file[1][r[2].old_op])
                /\ r[2].new_op \in DOMAIN index_file[1]
                /\ r[1] \in Range(index_file[1][r[2].new_op])

\* C4: each kept line appends exactly the record of its fields to its
\* pattern, and a written index lists the pattern under old_op and new_op.
C4_OneRecordPerLine == [][C4_LineStep /\ C4_IndexMapsBoth']_vars

\* An index was written for a file with a 4-field Replaced line and a
\* 4-field line of another type, whose fourth field was ignored.
C4_Witness ==
    /\ index_file # <<>>
    /\ \E r \in AllRecords : "old_op" \in DOMAIN r[2] /\ r[2].old_op # r[2].new_op
    /\ \E k \in DOMAIN input :
          /\ Len(Fields(input[k])) = 4
          /\ Fields(input[k])[2] = INSERTED
          /\ <<Fields(input[k])[1],
               [type |-> INSERTED, op |-> Fields(input[k])[3]]>> \in AllRecords

(***************************************************************************)
(* C5: a record whose label is none of the five recognized strings makes   *)
(* report generation for its pattern abort the run with a fatal error: no  *)
(* report is written for that pattern or for any later pattern, and the    *)
(* summary is not printed.                                                 *)
(***************************************************************************)
C5_NothingFromUnknownOn ==
    \A i \in DOMAIN patterns :
        HasUnknownType(patterns[i].mods) =>
            /\ postNo <= i
            /\ \A k \in i..Len(patterns) :
                  \A p \in DOMAIN files : files[p].title # patterns[k].name
            /\ pc \notin {"summary", "done"}
            /\ \A e \in Range(events) : e.kind \notin {"generated", "summary"}

C5_AbortStep ==
    (pc = "posts" /\ postNo <= Len(patterns)
        /\ HasUnknownType(patterns[postNo].mods)) =>
            /\ pc' = "failed"
            /\ error' = "ValueError"
            /\ files' = files
            /\ events' = events

\* C5: reaching a pattern with an unrecognized label fails the run at once,
\* and nothing is written for that pattern or a later one, nor the summary.
C5_UnknownLabelAborts == [][C5_AbortStep /\ C5_NothingFromUnknownOn']_vars

\* The run was aborted at a pattern that is followed by another pattern.
C5_Witness ==
    /\ pc = "failed"
    /\ error = "ValueError"
    /\ postNo < Len(patterns)
    /\ index_file # <<>>

(***************************************************************************)
(* C6 (as amended): every record parse_file emits carries field 1 of its   *)
(* line unchanged as its label, recognized or not; so the unknown-label    *)
(* fatal branch of report generation is reached from parsed input when a   *)
(* kept line has a field 1 outside the five strings, and a run completes   *)
(* only if every record's label is one of the five.                        *)
(***************************************************************************)
\* C6 (as amended): the labels of the records are the fields 1 of the kept
\* lines; the fatal branch is taken for an unrecognized one.
C6_LabelIsFieldOne ==
    /\ pc = "index" =>
          {r[2].type : r \in AllRecords} =
              {Fields(l)[2] : l \in {q \in Range(input) : ~Skipped(q)}}
    /\ error = "ValueError" =>
          /\ postNo \in DOMAIN patterns
          /\ HasUnknownType(patterns[postNo].mods)
    /\ pc = "done" => \A r \in AllRecords : r[2].type \in RecognizedSet

\* The fatal branch was reached by a record parsed from the input.
C6_Witness ==
    /\ error = "ValueError"
    /\ \E r \in AllRecords : r[2].type = BogusType
    /\ \E k \in DOMAIN input : ~Skipped(input[k]) /\ Fields(input[k])[2] = BogusType

\* C6 as stated: every record parse_file emits has one of the five
\* recognized labels, so the unknown-label fatal branch is never reached.
C6_Original ==
    /\ \A r \in AllRecords : r[2].type \in RecognizedSet
    /\ error # "ValueError"

(***************************************************************************)
(* C7 as stated: a consumed line with at least 3 fields whose field 0 is   *)
(* empty or only whitespace has its record stored under "unknown".         *)
(***************************************************************************)
C7_EmptyNameBecomesUnknown ==
    \A k \in 1..(lineNo - 1) :
        LET f == RawFields(input[k]) IN
        (Len(f) >= 3 /\ Strip(f[1]) = <<>>) =>
            /\ KeyIndex(patterns, UNKNOWN) # 0
            /\ C4_RecordOf(f) \in Range(ModsOf(patterns, UNKNOWN))

(***************************************************************************)
(* C8 (as amended): a report has one section per non-empty bucket and none *)
(* for an empty bucket; the sections appear in the order in which their    *)
(* modification types first occur among the pattern's records; within a    *)
(* section the records keep file order.                                    *)
(***************************************************************************)
C8_FixedOrder ==
    <<"Operations replaced", "Operations inserted", "Operations erased",
      "Operations modified", "Operations replaced with values">>

C8_Rank(h) == CHOOSE i \in DOMAIN C8_FixedOrder : C8_FixedOrder[i] = h

\* The position of the first record of the bucket among the records.
C8_FirstPos(mods, h) ==
    CHOOSE j \in DOMAIN mods :
        /\ BucketOf(mods[j].type) = h
        /\ \A k \in 1..(j - 1) : BucketOf(mods[k].type) # h

\* One section per non-empty bucket, each listing its records in file order.
C8_SectionsMatchBuckets(secs, mods) ==
    /\ {secs[i].heading : i \in DOMAIN secs} =
           {BucketOf(mods[j].type) : j \in DOMAIN mods}
    /\ \A i, j \in DOMAIN secs : i # j => secs[i].heading # secs[j].heading
    /\ \A i \in DOMAIN secs :
           LET ops == SelectSeq(mods, LAMBDA m : BucketOf(m.type) = secs[i].heading)
           IN  /\ secs[i].items # <<>>
               /\ secs[i].items =
                      [j \in 1..Len(ops) |-> RenderItem(secs[i].heading, ops[j])]

\* C8 (as amended): one section per non-empty bucket, in the order in which
\* the types first occur among the records, each in file order.
C8_SectionsInFirstSeenOrder ==
    \A p \in DOMAIN files :
        LET secs == files[p].sections
            mods == ModsOf(patterns, files[p].title)
        IN  /\ C8_SectionsMatchBuckets(secs, mods)
            /\ \A i, j \in DOMAIN secs :
                   i < j => C8_FirstPos(mods, secs[i].heading)
                                < C8_FirstPos(mods, secs[j].heading)

\* A report was written whose sections are not in the order of the elif chain.
C8_Witness ==
    \E p \in DOMAIN files :
        /\ Len(files[p].sections) = 2
        /\ C8_Rank(files[p].sections[1].heading) > C8_Rank(files[p].sections[2].heading)

\* C8 as stated: the sections appear in the fixed order of the five headings.
C8_Original ==
    \A p \in DOMAIN files :
        LET secs == files[p].sections
            mods == ModsOf(patterns, files[p].title)
        IN  /\ C8_SectionsMatchBuckets(secs, mods)
            /\ \A i, j \in DOMAIN secs :
                   i < j => C8_Rank(secs[i].heading) < C8_Rank(secs[j].heading)

(***************************************************************************)
(* C9: the observable events of a run occur in the order: parsing          *)
(* completes, the index file is written, the reports are written one per   *)
(* pattern in first-seen pattern order, the summary is printed; no report  *)
(* is written before the index; the step that fails emits nothing, and     *)
(* after a failure nothing more happens.                                   *)
(***************************************************************************)
C9_Kinds == [i \in DOMAIN events |-> events[i].kind]

C9_FullRun(n) ==
    <<"parsed", "index", "found">> \o [i \in 1..n |-> "report"]
        \o <<"generated", "summary">>

\* The first consumed line stored under the pattern name.
C9_FirstLine(name) ==
    CHOOSE k \in DOMAIN input :
        /\ ~Skipped(input[k]) /\ C4_PatternOf(Fields(input[k])) = name
        /\ \A m \in 1..(k - 1) :
               Skipped(input[m]) \/ C4_PatternOf(Fields(input[m])) # name

\* C9: events occur in the order parsed, index, reports in pattern order,
\* summary; a failing step emits nothing and nothing follows a failure.
C9_PipelineOrder ==
    LET full == C9_FullRun(Len(patterns)) IN
    /\ Len(events) <= Len(full)
    /\ C9_Kinds = SubSeq(full, 1, Len(events))
    /\ events # <<>> => lineNo > Len(input)
    /\ pc = "index" =>
          \A i, j \in DOMAIN patterns :
              i < j => C9_FirstLine(patterns[i].name) < C9_FirstLine(patterns[j].name)
    /\ index_file # <<>> <=> "index" \in Range(C9_Kinds)
    /\ \A i \in DOMAIN ReportEvents :
          /\ ReportEvents[i].arg \in DOMAIN files
          /\ files[ReportEvents[i].arg].title = patterns[i].name
    /\ DOMAIN files # {} => index_file # <<>>
    /\ pc = "done" <=> "summary" \in Range(C9_Kinds)
    /\ pc = "failed" =>
          /\ ~ENABLED Next
          /\ error # "none"
          /\ Cardinality(DOMAIN files) = Len(ReportEvents)
          /\ C9_Kinds = IF index_file = <<>> THEN <<"parsed">>
                        ELSE <<"parsed", "index", "found">>
                                 \o [i \in 1..(postNo - 1) |-> "report"]

\* A run completed after writing the index and the reports of two patterns.
C9_Witness ==
    /\ pc = "done"
    /\ Len(patterns) = 2
    /\ Len(ReportEvents) = 2
    /\ index_file # <<>>

(***************************************************************************)
(* C10 as stated: when every line with at least 3 fields has one of the    *)
(* five recognized labels in field 1, the run does not fail, and every     *)
(* record labelled "notifyOperationReplaced (with op)" carries old_op and  *)
(* new_op.                                                                 *)
(***************************************************************************)
C10_AllLabelsRecognized ==
    \A k \in DOMAIN input :
        \A f \in {Fields(input[k]), RawFields(input[k])} :
            Len(f) >= 3 => f[2] \in RecognizedSet

\* C10 as stated: an input whose lines of 3 or more fields all carry a
\* recognized label completes, all its Replaced records having old_op, new_op.
C10_RecognizedInputCompletes ==
    C10_AllLabelsRecognized =>
        /\ pc # "failed"
        /\ \A r \in AllRecords :
              r[2].type = REPLACED_WITH_OP =>
                  {"old_op", "new_op"} \subseteq DOMAIN r[2]
====
